---- MODULE Spec2Model ----
(***************************************************************************)
(* Model of the archetype snapshot-testing library (src/src/lib.rs).       *)
(*                                                                         *)
(* A text is a sequence of characters; a file is a record saying whether   *)
(* it exists and what it holds.  snap() is modelled step by step, one      *)
(* action per filesystem call, environment read or print statement, so     *)
(* that calls running on parallel test workers interleave as the threads   *)
(* of the test harness do.  The test harness captures the standard output  *)
(* of every test separately, so stdout is kept per worker and starts       *)
(* empty with each test.                                                   *)
(***************************************************************************)
EXTENDS Integers, Sequences, FiniteSets, TLC

\* ---------------------------------------------------------------- bounds

\* Longest candidate text, in characters.
MaxLen == 3

\* Longest `ids` vector of a Search::ByIds fixture.
MaxIds == 2

\* ------------------------------------------------------------ base sets

Workers == {1, 2}

Keys == {"k1", "k2"}

NL == "\n"

Chars == {"a", NL}

Texts == UNION {[1..n -> Chars] : n \in 0..MaxLen}

\* Values the CI variable can have: None is {}, Some(v) is {v}.
EnvValues == {{}, {"true"}, {"1"}}

\* ------------------------------------------------------- path resolution

\* env!("CARGO_MANIFEST_DIR") joined with "snapshots".
SnapshotDir == <<"CARGO_MANIFEST_DIR", "snapshots">>

\* Variant: every key in one file.
SnapPathShared(k) == [dir |-> SnapshotDir, name |-> <<"snapshot", ".snap">>]

\* dir.push(&format!("{}.snap", key))
SnapPath(k) == [dir |-> SnapshotDir, name |-> <<k, ".snap">>]

Paths == {SnapPath(k) : k \in Keys}

\* Variant: create_dir with the error unwrapped.
MakeDirUnwrap(exists, can) == [dir |-> exists \/ can, fatal |-> exists \/ ~can]

\* std::fs::create_dir_all(&dir).ok(): the directory is there afterwards when
\* it was there before (success, also when another thread made it meanwhile)
\* or could be made; an error is dropped by .ok() and is never fatal.
MakeDir(exists, can) == [dir |-> exists \/ can, fatal |-> FALSE]

NoFile == [exists |-> FALSE, data |-> <<>>]

File(text) == [exists |-> TRUE, data |-> text]

\* Variant: the text written with a line ending after it.
FsWriteNewline(files, path, text) ==
    [files EXCEPT ![path] = File(Append(text, NL))]

\* fs::write(path, subject): creates or truncates the file and stores the
\* bytes given.
FsWrite(files, path, text) == [files EXCEPT ![path] = File(text)]

\* Variant: the error of the write dropped.
WriteOutcomeDropped(ok) == [kind |-> "capture", msg |-> <<>>]

\* How fs::write(..).expect("should be able to write snapshot") ends: the
\* call returns (a capture), or panics with the message when the write
\* failed.
WriteOutcome(ok) ==
    IF ok THEN [kind |-> "capture", msg |-> <<>>]
    ELSE [kind |-> "io", msg |-> <<"should be able to write snapshot">>]

\* ---------------------------------------------------------------- run mode

\* Variant: CI in force whenever the variable is set.
IsCIAnySet(v) == v # {}

\* Variant: the test negated.
IsCINegated(v) == ~(\E x \in v : x = "true")

\* option_env!("CI").map(|v| v == "true").unwrap_or(false)
IsCI(v) == \E x \in v : x = "true"

\* ------------------------------------------------------------ comparator

RECURSIVE split_lines(_, _, _)
split_lines(t, cur, acc) ==
    IF t = <<>>
    THEN IF cur = <<>> THEN acc ELSE Append(acc, cur)
    ELSE IF Head(t) = NL
         THEN split_lines(Tail(t), <<>>, Append(acc, Append(cur, NL)))
         ELSE split_lines(Tail(t), Append(cur, Head(t)), acc)

\* Variant: lines without their line endings, as str::lines gives them.
RECURSIVE strip_lines(_, _, _)
strip_lines(t, cur, acc) ==
    IF t = <<>>
    THEN IF cur = <<>> THEN acc ELSE Append(acc, cur)
    ELSE IF Head(t) = NL
         THEN strip_lines(Tail(t), <<>>, Append(acc, cur))
         ELSE strip_lines(Tail(t), Append(cur, Head(t)), acc)

LinesStripped(t) == strip_lines(t, <<>>, <<>>)

\* TextDiff::from_lines tokenizes both texts into lines, each line keeping
\* its line ending; a last line with no line ending is a line too.
Lines(t) == split_lines(t, <<>>, <<>>)

ends_with_newline(line) == line # <<>> /\ line[Len(line)] = NL

\* One change record of the alignment.  missing_newline is set for a line
\* with no line ending (from_lines diffs are newline terminated).
Change(tag, line) ==
    [tag |-> tag, value |-> line, missing_newline |-> ~ends_with_newline(line)]

RECURSIVE lcs_len(_, _)
lcs_len(a, b) ==
    IF a = <<>> \/ b = <<>> THEN 0
    ELSE IF Head(a) = Head(b) THEN 1 + lcs_len(Tail(a), Tail(b))
    ELSE LET x == lcs_len(Tail(a), b)
             y == lcs_len(a, Tail(b))
         IN  IF x >= y THEN x ELSE y

\* The line alignment in document order: a longest common subsequence of
\* the two line lists is Equal, the other old lines are Delete and the
\* other new lines Insert, deletions before insertions in a replaced run.
RECURSIVE align(_, _)
align(a, b) ==
    IF a = <<>> /\ b = <<>> THEN <<>>
    ELSE IF a = <<>> THEN <<Change("Insert", Head(b))>> \o align(a, Tail(b))
    ELSE IF b = <<>> THEN <<Change("Delete", Head(a))>> \o align(Tail(a), b)
    ELSE IF Head(a) = Head(b)
         THEN <<Change("Equal", Head(a))>> \o align(Tail(a), Tail(b))
    ELSE IF lcs_len(Tail(a), b) >= lcs_len(a, Tail(b))
         THEN <<Change("Delete", Head(a))>> \o align(Tail(a), b)
         ELSE <<Change("Insert", Head(b))>> \o align(a, Tail(b))

\* Variant: unchanged lines left out.
AllChangesNoEqual(stored, subject) ==
    SelectSeq(align(Lines(stored), Lines(subject)), LAMBDA c : c.tag # "Equal")

\* TextDiff::from_lines(&stored, &subject).iter_all_changes()
AllChanges(stored, subject) == align(Lines(stored), Lines(subject))

Matches(changes) == Len(SelectSeq(changes, LAMBDA c : c.tag = "Equal"))

\* Variant: no case for two texts without lines (0/0).
RatioNoEmptyCase(stored, subject) ==
    [num |-> 2 * Matches(AllChanges(stored, subject)),
     den |-> Len(Lines(stored)) + Len(Lines(subject))]

\* diff.ratio(): 2 * (lines in Equal records) / (old lines + new lines), and
\* 1.0 when both texts have no line.  Kept as a fraction: the f32 division
\* is exact for the line counts modelled here.
Ratio(stored, subject) ==
    LET len == Len(Lines(stored)) + Len(Lines(subject))
    IN  IF len = 0 THEN [num |-> 1, den |-> 1]
        ELSE [num |-> 2 * Matches(AllChanges(stored, subject)), den |-> len]

\* diff.ratio() != 1.0 is the negation of this; 0/0 is NaN, which is not 1.0.
RatioIsOne(r) == r.den # 0 /\ r.num = r.den

\* ---------------------------------------------------------------- renderer

\* The marker of a change kind ("-|" stands for the source's "-" followed by
\* a box-drawing bar, and so on).
Sign(tag) ==
    CASE tag = "Delete" -> "-|"
      [] tag = "Insert" -> "+|"
      [] tag = "Equal"  -> " |"

\* Variant: the line as it is.
DisplayRaw(change) == change.value

\* Display of a change: its line, and a line ending when the line has none.
Display(change) ==
    change.value \o (IF change.missing_newline THEN <<NL>> ELSE <<>>)

\* println!("{}", format!(" [top corner, bars] {} [bars]", key))
Header(k) == <<"HEADER ", k, " -----", NL>>

\* Variant: no footer.
FooterMissing(k) == <<>>

\* println!("{}", format!(" [bottom corner, bars] {} [bars]", key))
Footer(k) == <<"FOOTER ", k, " -----", NL>>

\* print!("{}{}", sign, change)
ChangeLine(change) == <<Sign(change.tag)>> \o Display(change)

\* ------------------------------------------------------- snap, run alone

\* What snap(key, subject) does when nothing else runs: how it ends and the
\* file it leaves, from the key's file, the run mode and whether the root
\* directory is there or can be made.
SnapAlone(file, ci, usable, text) ==
    IF ~file.exists
    THEN IF ci THEN [kind |-> "missing", file |-> file]
         ELSE IF usable THEN [kind |-> "capture", file |-> File(text)]
         ELSE [kind |-> "io", file |-> file]
    ELSE IF RatioIsOne(Ratio(file.data, text))
         THEN [kind |-> "pass", file |-> file]
         ELSE [kind |-> "mismatch", file |-> file]

\* ------------------------------------------------------------ JSON wrapper

\* The fixtures' type: enum Search { ByTerm { term }, ByIds { ids } }.
Terms == {"an example search term", "other"}

IdValues == {4, 7}

IdVectors == UNION {[1..n -> IdValues] : n \in 0..MaxIds}

ByTerm(term) == [variant |-> "ByTerm", term |-> term, ids |-> <<>>]

ByIds(ids) == [variant |-> "ByIds", term |-> "", ids |-> ids]

SearchValues == {ByTerm(t) : t \in Terms} \cup {ByIds(v) : v \in IdVectors}

JStr(s) == [kind |-> "str", str |-> s]

JNum(n) == [kind |-> "num", num |-> n]

JArr(items) == [kind |-> "arr", items |-> items]

JObj(fields) == [kind |-> "obj", fields |-> fields]

\* #[derive(Serialize)] with rename_all = "kebab-case" and tag = "type": a
\* map whose first entry is the variant's tag, then the variant's fields in
\* declaration order.
Serialize(v) ==
    IF v.variant = "ByTerm"
    THEN JObj(<< <<"type", JStr("by-term")>>, <<"term", JStr(v.term)>> >>)
    ELSE JObj(<< <<"type", JStr("by-ids")>>,
                 <<"ids", JArr([i \in 1..Len(v.ids) |-> JNum(v.ids[i])])>> >>)

RECURSIVE Indent(_)
Indent(n) == IF n = 0 THEN <<>> ELSE <<"  ">> \o Indent(n - 1)

RECURSIVE Pretty(_, _)
RECURSIVE PrettyItems(_, _, _)
RECURSIVE PrettyFields(_, _, _)

\* Array items from the i-th, one per line, separated by commas.
PrettyItems(items, i, lvl) ==
    IF i > Len(items) THEN <<>>
    ELSE Indent(lvl) \o Pretty(items[i], lvl)
         \o (IF i < Len(items) THEN <<",">> ELSE <<>>) \o <<NL>>
         \o PrettyItems(items, i + 1, lvl)

\* Map entries from the i-th, one per line, separated by commas.
PrettyFields(fields, i, lvl) ==
    IF i > Len(fields) THEN <<>>
    ELSE Indent(lvl) \o <<"\"", fields[i][1], "\"", ": ">>
         \o Pretty(fields[i][2], lvl)
         \o (IF i < Len(fields) THEN <<",">> ELSE <<>>) \o <<NL>>
         \o PrettyFields(fields, i + 1, lvl)

\* serde_json's pretty formatter: two spaces of indentation per level, an
\* empty array or map on one line.
Pretty(j, lvl) ==
    CASE j.kind = "str" -> <<"\"", j.str, "\"">>
      [] j.kind = "num" -> <<ToString(j.num)>>
      [] j.kind = "arr" ->
            IF j.items = <<>> THEN <<"[]">>
            ELSE <<"[", NL>> \o PrettyItems(j.items, 1, lvl + 1)
                 \o Indent(lvl) \o <<"]">>
      [] j.kind = "obj" ->
            IF j.fields = <<>> THEN <<"{}">>
            ELSE <<"{", NL>> \o PrettyFields(j.fields, 1, lvl + 1)
                 \o Indent(lvl) \o <<"}">>

\* Variant: the compact form.
to_string_compact(v) ==
    SelectSeq(Pretty(Serialize(v), 0), LAMBDA c : c # NL /\ c # "  ")

\* serde_json::to_string_pretty(subject).expect("should serialize")
to_string_pretty(v) == Pretty(Serialize(v), 0)

\* ------------------------------------------------------------------ state

VARIABLES
    dirExists,  \* whether the snapshot root directory exists
    creatable,  \* whether create_dir_all can create it (fixed by the host)
    fs,         \* the file at each snapshot path
    builtCI,    \* CI as option_env! saw it when the crate was compiled
    envCI,      \* CI in the environment of the running process
    pc,         \* each worker's position in snap
    key,        \* each call's key
    subject,    \* each call's candidate text
    value,      \* snap_json: the value serialized ({} for a plain snap call)
    again,      \* whether the call repeats the worker's previous snap_json
    ref0,       \* the key's file as it was when the call started
    found,      \* what path.exists() returned to the call
    stored,     \* what read_to_string returned to the call
    todo,       \* the change records the call has still to print
    stdout,     \* what the call's test has printed
    result,     \* how the call ended: [kind, msg]
    trace       \* the filesystem calls the call has made, in order

vars == <<dirExists, creatable, fs, builtCI, envCI, pc, key, subject, value,
          again, ref0, found, stored, todo, stdout, result, trace>>

host == <<creatable, builtCI, envCI>>

Running == [kind |-> "running", msg |-> <<>>]

\* Variant: the reference never found.
ExistsNever(files, path) == FALSE

\* path.exists()
Exists(files, path) == files[path].exists

\* The state of a run in which no test has started: every worker idle.
IdleWorkers ==
    /\ pc = [w \in Workers |-> "idle"]
    /\ key = [w \in Workers |-> "k1"]
    /\ subject = [w \in Workers |-> <<>>]
    /\ value = [w \in Workers |-> {}]
    /\ again = [w \in Workers |-> FALSE]
    /\ ref0 = [w \in Workers |-> NoFile]
    /\ found = [w \in Workers |-> FALSE]
    /\ stored = [w \in Workers |-> <<>>]
    /\ todo = [w \in Workers |-> <<>>]
    /\ stdout = [w \in Workers |-> <<>>]
    /\ result = [w \in Workers |-> Running]
    /\ trace = [w \in Workers |-> <<>>]

\* A test on worker w enters snap(k, text) (line 26).
Enter(w, k, text, v, rep) ==
    /\ pc[w] \in {"idle", "done"}
    /\ pc' = [pc EXCEPT ![w] = "dir_exists"]
    /\ key' = [key EXCEPT ![w] = k]
    /\ subject' = [subject EXCEPT ![w] = text]
    /\ value' = [value EXCEPT ![w] = v]
    /\ again' = [again EXCEPT ![w] = rep]
    /\ ref0' = [ref0 EXCEPT ![w] = fs[SnapPath(k)]]
    /\ found' = [found EXCEPT ![w] = FALSE]
    /\ stored' = [stored EXCEPT ![w] = <<>>]
    /\ todo' = [todo EXCEPT ![w] = <<>>]
    /\ stdout' = [stdout EXCEPT ![w] = <<>>]
    /\ result' = [result EXCEPT ![w] = Running]
    /\ trace' = [trace EXCEPT ![w] = <<>>]
    /\ UNCHANGED <<dirExists, fs, host>>

\* snap(key, subject)
Call(w, k, text) == Enter(w, k, text, {}, FALSE)

\* snap_json(key, subject): serialize, then snap.
CallJson(w, k, v) == Enter(w, k, to_string_pretty(v), {v}, FALSE)

\* The same test run again: snap_json with the key and value of the call
\* that has just captured or passed.
CallJsonAgain(w) ==
    /\ pc[w] = "done"
    /\ value[w] # {}
    /\ result[w].kind \in {"capture", "pass"}
    /\ \E v \in value[w] : Enter(w, key[w], to_string_pretty(v), {v}, TRUE)

\* if !dir.exists() (line 30)
DirExists(w) ==
    /\ pc[w] = "dir_exists"
    /\ pc' = [pc EXCEPT ![w] = IF dirExists THEN "path_exists" ELSE "create_dir"]
    /\ trace' = [trace EXCEPT ![w] = Append(@, "dir.exists")]
    /\ UNCHANGED <<dirExists, fs, host, key, subject, value, again, ref0,
                   found, stored, todo, stdout, result>>

\* std::fs::create_dir_all(&dir).ok() (line 31) in the step below.
CreateDir(w) ==
    /\ pc[w] = "create_dir"
    /\ LET r == MakeDir(dirExists, creatable)
       IN  /\ dirExists' = r.dir
           /\ IF r.fatal
              THEN /\ result' = [result EXCEPT ![w] =
                         [kind |-> "io", msg |-> <<"create_dir_all">>]]
                   /\ pc' = [pc EXCEPT ![w] = "done"]
              ELSE /\ pc' = [pc EXCEPT ![w] = "path_exists"]
                   /\ UNCHANGED result
    /\ trace' = [trace EXCEPT ![w] = Append(@, "create_dir_all")]
    /\ UNCHANGED <<fs, host, key, subject, value, again, ref0, found, stored,
                   todo, stdout>>

\* if !path.exists() (line 36)
PathExists(w) ==
    /\ pc[w] = "path_exists"
    /\ found' = [found EXCEPT ![w] = Exists(fs, SnapPath(key[w]))]
    /\ pc' = [pc EXCEPT ![w] = IF found'[w] THEN "read" ELSE "ci"]
    /\ trace' = [trace EXCEPT ![w] = Append(@, "path.exists")]
    /\ UNCHANGED <<dirExists, fs, host, key, subject, value, again, ref0,
                   stored, todo, stdout, result>>

\* if option_env!("CI")... { assert!(false, "snapshot missing for {}", key) }
\* (lines 37-39)
CheckCI(w) ==
    /\ pc[w] = "ci"
    /\ IF IsCI(builtCI)
       THEN /\ result' = [result EXCEPT ![w] =
                  [kind |-> "missing", msg |-> <<"snapshot missing for ", key[w]>>]]
            /\ pc' = [pc EXCEPT ![w] = "done"]
       ELSE /\ pc' = [pc EXCEPT ![w] = "write"]
            /\ UNCHANGED result
    /\ UNCHANGED <<dirExists, fs, host, key, subject, value, again, ref0,
                   found, stored, todo, stdout, trace>>

\* fs::write(path, subject).expect("should be able to write snapshot")
\* (line 40): fails when the directory is not there.
Write(w) ==
    /\ pc[w] = "write"
    /\ fs' = IF dirExists THEN FsWrite(fs, SnapPath(key[w]), subject[w]) ELSE fs
    /\ result' = [result EXCEPT ![w] = WriteOutcome(dirExists)]
    /\ pc' = [pc EXCEPT ![w] = "done"]
    /\ trace' = [trace EXCEPT ![w] = Append(@, "write")]
    /\ UNCHANGED <<dirExists, host, key, subject, value, again, ref0, found,
                   stored, todo, stdout>>

\* fs::read_to_string(&path).expect("should be able to read snapshot")
\* (line 42)
Read(w) ==
    /\ pc[w] = "read"
    /\ IF fs[SnapPath(key[w])].exists
       THEN /\ stored' = [stored EXCEPT ![w] = fs[SnapPath(key[w])].data]
            /\ pc' = [pc EXCEPT ![w] = "diff"]
            /\ UNCHANGED result
       ELSE /\ result' = [result EXCEPT ![w] =
                  [kind |-> "io", msg |-> <<"should be able to read snapshot">>]]
            /\ pc' = [pc EXCEPT ![w] = "done"]
            /\ UNCHANGED stored
    /\ trace' = [trace EXCEPT ![w] = Append(@, "read")]
    /\ UNCHANGED <<dirExists, fs, host, key, subject, value, again, ref0,
                   found, todo, stdout>>

\* let diff = TextDiff::from_lines(&stored, &subject);
\* if diff.ratio() != 1.0 (lines 43-44)
Compare(w) ==
    /\ pc[w] = "diff"
    /\ IF RatioIsOne(Ratio(stored[w], subject[w]))
       THEN /\ result' = [result EXCEPT ![w] = [kind |-> "pass", msg |-> <<>>]]
            /\ pc' = [pc EXCEPT ![w] = "done"]
            /\ UNCHANGED todo
       ELSE /\ todo' = [todo EXCEPT ![w] = AllChanges(stored[w], subject[w])]
            /\ pc' = [pc EXCEPT ![w] = "header"]
            /\ UNCHANGED result
    /\ UNCHANGED <<dirExists, fs, host, key, subject, value, again, ref0,
                   found, stored, stdout, trace>>

\* println! of the header banner (line 45)
PrintHeader(w) ==
    /\ pc[w] = "header"
    /\ stdout' = [stdout EXCEPT ![w] = @ \o Header(key[w])]
    /\ pc' = [pc EXCEPT ![w] = "changes"]
    /\ UNCHANGED <<dirExists, fs, host, key, subject, value, again, ref0,
                   found, stored, todo, result, trace>>

\* One turn of `for change in diff.iter_all_changes()` (lines 46-53)
PrintChange(w) ==
    /\ pc[w] = "changes"
    /\ todo[w] # <<>>
    /\ stdout' = [stdout EXCEPT ![w] = @ \o ChangeLine(Head(todo[w]))]
    /\ todo' = [todo EXCEPT ![w] = Tail(@)]
    /\ UNCHANGED <<dirExists, fs, host, pc, key, subject, value, again, ref0,
                   found, stored, result, trace>>

\* println! of the footer banner, after the loop (line 54)
PrintFooter(w) ==
    /\ pc[w] = "changes"
    /\ todo[w] = <<>>
    /\ stdout' = [stdout EXCEPT ![w] = @ \o Footer(key[w])]
    /\ pc' = [pc EXCEPT ![w] = "assert"]
    /\ UNCHANGED <<dirExists, fs, host, key, subject, value, again, ref0,
                   found, stored, todo, result, trace>>

\* assert!(false, "snapshot mismatch at {}", path.to_string_lossy())
\* (line 55)
AssertMismatch(w) ==
    /\ pc[w] = "assert"
    /\ result' = [result EXCEPT ![w] =
           [kind |-> "mismatch",
            msg |-> <<"snapshot mismatch at ", SnapPath(key[w])>>]]
    /\ pc' = [pc EXCEPT ![w] = "done"]
    /\ UNCHANGED <<dirExists, fs, host, key, subject, value, again, ref0,
                   found, stored, todo, stdout, trace>>

\* std::env::set_var("CI", v) or remove_var("CI") by the test process,
\* between two tests.
SetEnv(v) ==
    /\ \A w \in Workers : pc[w] \in {"idle", "done"}
    /\ \E w \in Workers : pc[w] = "done"
    /\ envCI # v
    /\ envCI' = v
    /\ UNCHANGED <<dirExists, creatable, fs, builtCI, pc, key, subject, value,
                   again, ref0, found, stored, todo, stdout, result, trace>>

\* The next statement of the call on worker w.
Step(w) ==
    \/ DirExists(w)
    \/ CreateDir(w)
    \/ PathExists(w)
    \/ CheckCI(w)
    \/ Write(w)
    \/ Read(w)
    \/ Compare(w)
    \/ PrintHeader(w)
    \/ PrintChange(w)
    \/ PrintFooter(w)
    \/ AssertMismatch(w)

\* -------------------------------------------------------- specifications

\* The references a checkout can hold before a run.
StoredFiles == {NoFile} \cup {File(t) : t \in Texts}

\* A run on a usable filesystem: the root directory is there or can be
\* made, any references may be committed already, and the crate was built
\* in the environment it runs in.
Init ==
    /\ dirExists \in BOOLEAN
    /\ creatable = TRUE
    /\ fs \in [Paths -> StoredFiles]
    /\ (\E p \in Paths : fs[p].exists) => dirExists
    /\ builtCI \in {{}, {"true"}}
    /\ envCI = builtCI
    /\ IdleWorkers

\* Tests run one after another, each calling snap once.
Next == (\E k \in Keys, t \in Texts : Call(1, k, t)) \/ Step(1)

Spec == Init /\ [][Next]_vars

\* The two fixtures of the crate's tests (search_by_term, search_by_ids),
\* as committed references.
CommittedJson ==
    {NoFile, File(to_string_pretty(ByTerm("an example search term"))),
     File(to_string_pretty(ByIds(<<4, 7>>)))}

InitJson ==
    /\ dirExists \in BOOLEAN
    /\ creatable = TRUE
    /\ fs \in [Paths -> CommittedJson]
    /\ (\E p \in Paths : fs[p].exists) => dirExists
    /\ builtCI \in {{}, {"true"}}
    /\ envCI = builtCI
    /\ IdleWorkers

\* Generated snapshot tests run one after another, and a test may be run
\* again with the value it had.
NextJson ==
    \/ \E k \in Keys, v \in SearchValues : CallJson(1, k, v)
    \/ CallJsonAgain(1)
    \/ Step(1)

SpecJson == InitJson /\ [][NextJson]_vars

\* Texts of the tests that run in parallel.
ParTexts == {<<>>, <<"a">>, <<"a", NL>>}

InitPar ==
    /\ dirExists \in BOOLEAN
    /\ creatable = TRUE
    /\ fs \in [Paths -> {NoFile, File(<<"a", NL>>)}]
    /\ (\E p \in Paths : fs[p].exists) => dirExists
    /\ builtCI \in {{}, {"true"}}
    /\ envCI = builtCI
    /\ IdleWorkers

\* A test starts on worker w while no call with the same key is running.
CallDistinct(w, k, text) ==
    /\ \A v \in Workers \ {w} : pc[v] \in {"idle", "done"} \/ key[v] # k
    /\ Call(w, k, text)

\* Tests on two workers of the test harness, their statements interleaved,
\* no two running calls with the same key.
NextPar ==
    \E w \in Workers :
        \/ \E k \in Keys, t \in ParTexts : CallDistinct(w, k, t)
        \/ Step(w)

SpecPar == InitPar /\ [][NextPar]_vars

InitEnv ==
    /\ dirExists \in BOOLEAN
    /\ creatable = TRUE
    /\ fs = [p \in Paths |-> NoFile]
    /\ builtCI \in EnvValues
    /\ envCI = builtCI
    /\ IdleWorkers

\* Tests run one after another while the process changes its CI variable.
NextEnv ==
    \/ \E k \in Keys, t \in ParTexts : Call(1, k, t)
    \/ Step(1)
    \/ \E v \in EnvValues : SetEnv(v)

SpecEnv == InitEnv /\ [][NextEnv]_vars

\* Tests on two workers of the test harness, their statements interleaved,
\* any two of them free to use one key.
NextRace ==
    \E w \in Workers :
        \/ \E k \in Keys, t \in ParTexts : Call(w, k, t)
        \/ Step(w)

SpecRace == InitPar /\ [][NextRace]_vars

\* A host on which the root directory may be missing and impossible to
\* create (a read-only checkout, say).
InitFault ==
    /\ dirExists \in BOOLEAN
    /\ creatable \in BOOLEAN
    /\ fs \in [Paths -> {NoFile, File(<<"a", NL>>)}]
    /\ (\E p \in Paths : fs[p].exists) => dirExists
    /\ builtCI \in {{}, {"true"}}
    /\ envCI = builtCI
    /\ IdleWorkers

\* Tests run one after another, with the texts of ParTexts.
NextSeq == (\E k \in Keys, t \in ParTexts : Call(1, k, t)) \/ Step(1)

\* snap is straight-line synchronous code: a call that has started goes on
\* to its next statement.
SpecFault == InitFault /\ [][NextSeq]_vars /\ WF_vars(Step(1))

\* Values of CI at build time, "true" and others.
CISignals == EnvValues \cup {{"TRUE"}, {""}}

InitCI ==
    /\ dirExists \in BOOLEAN
    /\ creatable = TRUE
    /\ fs \in [Paths -> {NoFile, File(<<"a", NL>>)}]
    /\ (\E p \in Paths : fs[p].exists) => dirExists
    /\ builtCI \in CISignals
    /\ envCI = builtCI
    /\ IdleWorkers

SpecCI == InitCI /\ [][NextSeq]_vars

\* ----------------------------------------------------------------- claims

Path(w) == SnapPath(key[w])

Done(w) == pc[w] = "done"

\* C1: once the reference of a key exists its content never changes, and
\* the only step that changes a snapshot file is the write of a call whose
\* existence check found the file absent, which stores that call's payload.
C1_ReferenceNeverOverwritten ==
    [][\A p \in Paths :
          /\ fs[p].exists => fs'[p] = fs[p]
          /\ fs'[p] # fs[p] =>
                \E w \in Workers :
                    /\ pc[w] = "write" /\ pc'[w] = "done"
                    /\ Path(w) = p
                    /\ ~found[w]
                    /\ fs'[p] = File(subject[w])]_vars

\* A call on an existing reference with another payload has ended, and the
\* reference is what it was.
C1_Witness ==
    /\ Done(1)
    /\ ref0[1].exists
    /\ ref0[1].data # subject[1]
    /\ fs[Path(1)] = ref0[1]

\* C2: with no reference for the key and CI in force, the call fails with
\* a missing-snapshot error that names the key, and the file is still
\* absent after the call.
C2_CIStrictness ==
    \A w \in Workers :
        (Done(w) /\ ~ref0[w].exists /\ builtCI = {"true"}) =>
            /\ result[w].kind = "missing"
            /\ result[w].msg = <<"snapshot missing for ", key[w]>>
            /\ fs[Path(w)] = NoFile

C2_Witness ==
    /\ Done(1)
    /\ ~ref0[1].exists
    /\ builtCI = {"true"}
    /\ subject[1] # <<>>
    /\ result[1].kind = "missing"

\* C3: with no reference for the key and CI not in force, the call passes
\* (a capture) and the file <snapshot root>/<key>.snap holds exactly the
\* candidate text.
C3_FirstWrite ==
    \A w \in Workers :
        (Done(w) /\ ~ref0[w].exists /\ builtCI # {"true"}) =>
            /\ result[w].kind = "capture"
            /\ fs[[dir |-> SnapshotDir, name |-> <<key[w], ".snap">>]]
                   = [exists |-> TRUE, data |-> subject[w]]

\* A capture of a two-line text with no final line ending, in a root
\* directory the call had to create.
C3_Witness ==
    /\ Done(1)
    /\ ~ref0[1].exists
    /\ result[1].kind = "capture"
    /\ subject[1] = <<NL, "a">>
    /\ fs[Path(1)].data = <<NL, "a">>
    /\ trace[1] = <<"dir.exists", "create_dir_all", "path.exists", "write">>

\* C4: a call whose text equals the stored reference passes, in either run
\* mode, and leaves the reference file as it was; the file is the same
\* after every step of such a call.
C4_IdempotentComparison ==
    \A w \in Workers :
        (ref0[w].exists /\ ref0[w].data = subject[w] /\ pc[w] # "idle") =>
            /\ fs[Path(w)] = ref0[w]
            /\ Done(w) => result[w].kind = "pass"

\* A passing comparison in CI mode, of a text of two equal lines.
C4_Witness ==
    /\ Done(1)
    /\ builtCI = {"true"}
    /\ ref0[1] = File(<<NL, NL>>)
    /\ subject[1] = <<NL, NL>>
    /\ result[1].kind = "pass"

HasChangeMarker(out) ==
    \E i \in 1..Len(out) : out[i] \in {"-|", "+|"}

\* C5: a candidate that differs from the existing reference has a ratio
\* below 1.0, the call fails with a mismatch (not an I/O error), and the
\* output has at least one Delete or Insert record; when exactly one of
\* the two texts is empty the ratio is 0.
C5_MismatchDetected ==
    \A w \in Workers :
        (Done(w) /\ ref0[w].exists /\ ref0[w].data # subject[w]) =>
            LET r == Ratio(ref0[w].data, subject[w])
            IN  /\ r.den > 0 /\ r.num < r.den
                /\ result[w].kind = "mismatch"
                /\ HasChangeMarker(stdout[w])
                /\ ((ref0[w].data = <<>>) # (subject[w] = <<>>)) => r.num = 0

\* A mismatch of two texts that differ only in the final line ending.
C5_Witness ==
    /\ Done(1)
    /\ ref0[1] = File(<<"a", NL>>)
    /\ subject[1] = <<"a">>
    /\ result[1].kind = "mismatch"

\* The lines of an output stream.
OutLines(out) == Lines(out)

\* C9: only a mismatch prints.  A call that passed, captured or failed
\* with a missing snapshot has printed nothing, nothing is printed before
\* the comparison has found a difference, and when the call is about to
\* fail or has failed with a mismatch the block is complete: it opens
\* with the header banner, closes with the footer banner and has a line
\* for every change record between them.
C9_OutputOnlyOnMismatch ==
    \A w \in Workers :
        /\ (Done(w) /\ result[w].kind # "mismatch") => stdout[w] = <<>>
        /\ pc[w] \in {"idle", "dir_exists", "create_dir", "path_exists", "ci",
                      "write", "read", "diff", "header"} => stdout[w] = <<>>
        /\ (pc[w] = "assert" \/ (Done(w) /\ result[w].kind = "mismatch")) =>
              LET out == OutLines(stdout[w])
                  n   == Len(align(Lines(stored[w]), Lines(subject[w])))
              IN  /\ Len(out) = n + 2
                  /\ out[1] = Header(key[w])
                  /\ out[n + 2] = Footer(key[w])
                  /\ n >= 1

\* The whole block is out and the call has not failed yet.
C9_Witness ==
    /\ pc[1] = "assert"
    /\ result[1].kind = "running"
    /\ Len(OutLines(stdout[1])) = 4

Marker(tag) ==
    CASE tag = "Delete" -> "-|"
      [] tag = "Insert" -> "+|"
      [] tag = "Equal"  -> " |"

\* The text of a line without its line ending.
Chomp(line) ==
    IF line # <<>> /\ line[Len(line)] = NL
    THEN SubSeq(line, 1, Len(line) - 1)
    ELSE line

\* C10: the block of a mismatch is the header banner with the key, then
\* one output line per change record of the alignment, in the alignment's
\* order, each the marker of the record's kind followed by the record's
\* line, Equal records included, then the footer banner with the key.
C10_RenderedBlock ==
    \A w \in Workers :
        (Done(w) /\ result[w].kind = "mismatch") =>
            LET out == OutLines(stdout[w])
                ch  == align(Lines(stored[w]), Lines(subject[w]))
            IN  /\ Len(out) = Len(ch) + 2
                /\ \E i \in 1..Len(out[1]) : out[1][i] = key[w]
                /\ \E i \in 1..Len(out[Len(out)]) : out[Len(out)][i] = key[w]
                /\ out[1] # out[Len(out)]
                /\ \A i \in 1..Len(ch) :
                      /\ out[i + 1][1] = Marker(ch[i].tag)
                      /\ Chomp(Tail(out[i + 1])) = Chomp(ch[i].value)
                      /\ out[i + 1][Len(out[i + 1])] = NL

\* A block with an Equal record, a Delete record and an Insert record whose
\* line has no line ending.
C10_Witness ==
    /\ Done(1)
    /\ result[1].kind = "mismatch"
    /\ stored[1] = <<NL, NL>>
    /\ subject[1] = <<NL, "a">>
    /\ Len(OutLines(stdout[1])) = 5

\* C6: when snap_json(key, v) has captured or passed, the same call made
\* again passes: the text serialized for v is the stored reference.
C6_JsonRoundTrip ==
    \A w \in Workers :
        (again[w] /\ pc[w] # "idle") =>
            /\ \A v \in value[w] : subject[w] = to_string_pretty(v)
            /\ ref0[w] = File(subject[w])
            /\ Done(w) => result[w].kind = "pass"

\* The second run of a test that captured a ByIds value with two ids.
C6_Witness ==
    /\ Done(1)
    /\ again[1]
    /\ value[1] = {ByIds(<<7, 4>>)}
    /\ result[1].kind = "pass"
    /\ builtCI = {}

\* C7: distinct keys have distinct files, and a call that ran while calls
\* with other keys ran on the other worker ends as it would have alone,
\* with the file it would have left alone.
C7_DistinctKeysIndependent ==
    /\ \A k1 \in Keys, k2 \in Keys : k1 # k2 => SnapPath(k1) # SnapPath(k2)
    /\ \A w \in Workers :
          Done(w) =>
              LET alone == SnapAlone(ref0[w], builtCI = {"true"}, TRUE, subject[w])
              IN  /\ result[w].kind = alone.kind
                  /\ fs[Path(w)] = alone.file

\* Both workers found the root directory absent, both called
\* create_dir_all, and both captured.
C7_Witness ==
    /\ \A w \in Workers :
          /\ Done(w)
          /\ result[w].kind = "capture"
          /\ trace[w] = <<"dir.exists", "create_dir_all", "path.exists", "write">>
    /\ key[1] # key[2]

\* C8: the run mode a call acts on is the value the CI variable has in the
\* process environment when the call decides: on an absent reference the
\* call fails with a missing snapshot exactly when CI is "true" then.
C8_ModeReadAtCallTime ==
    [][\A w \in Workers :
          (pc[w] = "ci" /\ pc'[w] # "ci") =>
              ((result'[w].kind = "missing") <=> (envCI = {"true"}))]_vars

\* The step is the fs::write of the call on worker w, and it succeeded.
Wrote(w) == pc[w] = "write" /\ pc'[w] = "done" /\ result'[w].kind = "capture"

\* The step is a statement of the call on worker w.
Stepped(w) == pc'[w] # pc[w] \/ todo'[w] # todo[w]

\* C11 as stated: the file of a key is written at most once and is
\* read-only from then on, so no write lands on a file that exists, also
\* when calls on one key interleave.
C11_WrittenAtMostOnce ==
    [][\A w \in Workers : Wrote(w) => ~fs[Path(w)].exists]_vars

\* C11, amended: a call writes the file of its key at most once, and only
\* when its own existence check found the file absent (so the file was
\* absent when the call started); a call that found the file present, or
\* started with it present, changes no file.  Calls on one key that
\* interleave may each find it absent and each write it.
C11_WritesOnlyWhenFoundAbsent ==
    [][\A w \in Workers :
          /\ Wrote(w) =>
                /\ ~found[w]
                /\ ~ref0[w].exists
                /\ \A i \in 1..Len(trace[w]) : trace[w][i] # "write"
                /\ \A p \in Paths \ {Path(w)} : fs'[p] = fs[p]
          /\ (Stepped(w) /\ pc[w] # "idle" /\ pc[w] # "done"
                /\ (found[w] \/ ref0[w].exists)) => fs' = fs]_vars

\* Two calls on one key both found no reference and both wrote, with
\* different texts; the file holds the text of one of them.
C11_Witness ==
    /\ Done(1) /\ Done(2)
    /\ key[1] = key[2]
    /\ result[1].kind = "capture" /\ result[2].kind = "capture"
    /\ subject[1] = <<"a">> /\ subject[2] = <<"a", NL>>
    /\ fs[Path(1)] = File(<<"a">>)

InTrace(w, op) == \E i \in 1..Len(trace[w]) : trace[w][i] = op

\* C12: when create_dir_all has failed (the call made it and the root is
\* still absent) the call has not failed at that point: it goes on to the
\* existence check, and in local mode it ends at fs::write with the
\* write's fatal error, the file absent and no capture or pass reported;
\* in CI mode it ends with the missing-snapshot error.
C12_DirFailureDeferred ==
    \A w \in Workers :
        (InTrace(w, "create_dir_all") /\ ~dirExists) =>
            /\ pc[w] \in {"path_exists", "ci", "write", "done"}
            /\ ~Done(w) => result[w] = Running
            /\ result[w].kind \notin {"capture", "pass"}
            /\ Done(w) =>
                  /\ InTrace(w, "path.exists")
                  /\ fs[Path(w)] = NoFile
                  /\ IF builtCI = {"true"}
                     THEN result[w].kind = "missing"
                     ELSE /\ result[w].kind = "io"
                          /\ result[w].msg = <<"should be able to write snapshot">>
                          /\ trace[w][Len(trace[w])] = "write"

\* A local call that could not create the root and ended at the write.
C12_Witness ==
    /\ Done(1)
    /\ ~dirExists
    /\ builtCI = {}
    /\ result[1].kind = "io"
    /\ trace[1] = <<"dir.exists", "create_dir_all", "path.exists", "write">>

Count(w, op) == Len(SelectSeq(trace[w], LAMBDA x : x = op))

Terminal == {"capture", "pass", "missing", "mismatch", "io"}

\* The state part of C13: a call has made at most one existence check of
\* the reference, one read and one write; it has an outcome exactly when
\* it is over, and the outcome is one of the five; a capture has written
\* the file and a pass has read a reference equal to the text, so a call
\* whose write failed is neither; an I/O failure ends the call at the
\* failed step.
C13_OneOutcome ==
    \A w \in Workers :
        /\ Count(w, "path.exists") <= 1
        /\ Count(w, "read") <= 1
        /\ Count(w, "write") <= 1
        /\ Done(w) <=> result[w].kind \in Terminal
        /\ ~Done(w) => result[w] = Running
        /\ result[w].kind = "capture" =>
              InTrace(w, "write") /\ fs[Path(w)] = File(subject[w])
        /\ result[w].kind = "pass" =>
              /\ InTrace(w, "read") /\ ~InTrace(w, "write")
              /\ fs[Path(w)] = File(subject[w])
        /\ result[w].kind = "io" =>
              /\ trace[w][Len(trace[w])] \in {"write", "read"}
              /\ Count(w, "write") + Count(w, "read") = 1
        /\ (Done(w) /\ InTrace(w, "write") /\ ~fs[Path(w)].exists) =>
              result[w].kind = "io"

\* C13: every call that has started ends, in exactly one of the five
\* outcomes, after at most one existence check, one read and one write of
\* the reference; a failed step is not retried and a failure is not turned
\* into a pass.
C13_TerminatesOnce ==
    /\ []C13_OneOutcome
    /\ \A w \in Workers : (pc[w] = "dir_exists") ~> Done(w)

\* A call ended by the failure of its only write, nothing read.
C13_Witness ==
    /\ Done(1)
    /\ result[1].kind = "io"
    /\ Count(1, "write") = 1
    /\ Count(1, "read") = 0
    /\ Count(1, "path.exists") = 1
    /\ subject[1] = <<"a">>

\* C14: CI is in force only for the value "true".  With CI unset or set to
\* anything else ("1", "TRUE", the empty string) a call on an absent
\* reference writes the text and passes; with "true" it fails with the
\* missing-snapshot error.
C14_OnlyTrueIsCI ==
    \A w \in Workers :
        (Done(w) /\ ~ref0[w].exists) =>
            IF builtCI = {"true"}
            THEN result[w].kind = "missing" /\ fs[Path(w)] = NoFile
            ELSE result[w].kind = "capture" /\ fs[Path(w)] = File(subject[w])

\* A capture with CI set to "TRUE".
C14_Witness ==
    /\ Done(1)
    /\ builtCI = {"TRUE"}
    /\ ~ref0[1].exists
    /\ result[1].kind = "capture"
    /\ fs[Path(1)] = File(<<"a", NL>>)

====
